---- MODULE Spec2Model ----
(***************************************************************************)
(* Model of the agent registry of src/mcp_agent_registry.py: the           *)
(* per-agent status state machine, start_agent / stop_agent /              *)
(* restart_agent / check_agent_health and the health monitor loop.         *)
(*                                                                         *)
(* The registry runs on one asyncio event loop.  A coroutine keeps the     *)
(* loop until it awaits asyncio.sleep; requests.get, Popen.wait and the    *)
(* awaits of stop_agent / check_agent_health (which never suspend) do not  *)
(* yield.  The variable `running` holds the task that owns the loop; a     *)
(* task gives it up only at asyncio.sleep or when its coroutine ends.      *)
(* Each action is one statement group of the source.                       *)
(***************************************************************************)
EXTENDS Integers, Sequences, FiniteSets, TLC

\* ---- bounds of the model ------------------------------------------------
\* number of concurrent manual callers (API requests) besides the monitor
NumCallers == 1

\* the number of consecutive healthy monitor cycles that is counted
MaxCycles == 2

\* ---- program constants ---------------------------------------------------
max_restarts == 3
health_check_interval == 10
StartupGrace == 3
RestartPause == 2

\* self.agents, in dict insertion order (the order the monitor iterates in)
AgentOrder == <<"browser", "code", "file", "casual", "planner">>

Agents == {AgentOrder[i] : i \in 1..Len(AgentOrder)}

\* the agent names manual calls are made for (the other agents stay stopped)
CallAgents == {"browser"}

AgentStatus == {"starting", "running", "crashed", "stopped", "restarting"}

\* outcome of requests.get(.../health, timeout=5): status 200, another HTTP
\* status, or an exception (connection refused, timeout)
ProbeOutcomes == {"ok", "http_error", "exception"}

MonitorTask == 0

Callers == 1..NumCallers

Tasks == Callers \cup {MonitorTask}

ManualOps == {"start", "stop", "restart", "check"}

VARIABLES
    agents,                  \* name -> AgentInfo (the mutable fields)
    health_monitor_running,  \* the monitor's loop flag
    task,                    \* task -> position and bookkeeping of the task
    running,                 \* {} or {t}: the task that owns the event loop
    timers,                  \* sleeping tasks, in the order their sleep began
    result,                  \* what the last call of a query function returned
    latest_answer_data,      \* mcp_api: the published answer record
    processing_query,        \* mcp_api: the processing flag
    background,              \* mcp_api: the process_query_background tasks
    now,                     \* mcp_api: the clock that uids are made from
    history                  \* calls made so far that the properties refer to

registry_vars == <<agents, health_monitor_running, task, running, timers,
                   history>>

api_vars == <<latest_answer_data, processing_query, background, now>>

api_vars_but_background == <<latest_answer_data, processing_query, now>>

vars == <<agents, health_monitor_running, task, running, timers,
          result, latest_answer_data, processing_query, background, now,
          history>>

\* AgentInfo defaults; process is the Popen handle: "none" (None), "live"
\* (poll() is None) or "dead" (poll() is an exit code)
AgentInfo == [name |-> "", port |-> 0, process |-> "none",
              status |-> "stopped", last_health_check |-> 0,
              restart_count |-> 0, max_restarts |-> max_restarts,
              script_path |-> ""]

\* the port each agent is configured with (lines 57-81)
port(name) ==
    CASE name = "browser" -> 8001
      [] name = "code" -> 8002
      [] name = "file" -> 8003
      [] name = "casual" -> 8004
      [] name = "planner" -> 8005

\* self.agents as __init__ builds it (lines 56-82)
ConfiguredAgents ==
    [a \in Agents |->
        [AgentInfo EXCEPT !.name = a,
                          !.port = port(a),
                          !.script_path = "mcp_agents/" \o a \o "_agent_server.py"]]

NoStreak == [a \in Agents |-> 0]

\* a task: pc is its place in the code, op the registry operation it is in,
\* agent that operation's agent_name, idx the monitor's place in its for loop,
\* ret the operation's return value once it has returned.  Bookkeeping for
\* the properties: fx the OS-process effects of the operation so far, st0 and
\* cnt0 the agent's status and restart_count when the operation was called,
\* alone whether no other operation has acted on the agent since that call,
\* probe the outcome of the GET /health the task has just made, streak (of
\* the monitor) for each agent the number of monitor cycles in a row, up to
\* MaxCycles, that found the agent Running and its probe healthy
IdleTask == [pc |-> "idle", op |-> "none", agent |-> "none", idx |-> 0,
             ret |-> "none", fx |-> {}, st0 |-> "none", cnt0 |-> 0,
             alone |-> TRUE, probe |-> "none", streak |-> NoStreak]

\* the history of calls: stopped is the set of agents for which a stop_agent
\* call has returned True with no start_agent or restart_agent called for the
\* agent since; stop_requested is whether stop_health_monitor has been called
\* since the monitor task was created
NoHistory == [stopped |-> {}, stop_requested |-> FALSE]

\* no query function has been called yet
NoResult == [fn |-> "none", arg |-> "none", value |-> <<>>]

\* mcp_api's module state when it is loaded (lines 36-49); uid "" is 0
ApiInit ==
    /\ latest_answer_data = [agent_name |-> "", status |-> "ready",
                             done |-> FALSE, uid |-> 0, error |-> "None"]
    /\ processing_query = FALSE
    /\ background = <<>>
    /\ now = 0

Init ==
    /\ agents = ConfiguredAgents
    /\ health_monitor_running = FALSE
    /\ history = NoHistory
    /\ task = [t \in Tasks |->
                 IF t = MonitorTask THEN [IdleTask EXCEPT !.pc = "m_none"]
                 ELSE IdleTask]
    /\ running = {}
    /\ timers = <<>>
    /\ result = NoResult
    /\ ApiInit

\* ---- helpers ---------------------------------------------------------------
Agent(t) == agents[task[t].agent]

Idle == running = {}

Owns(t) == running = {t}

\* the duration of the asyncio.sleep a task is suspended in
SleepOf(t) ==
    CASE task[t].pc = "s_sleep" -> StartupGrace
      [] task[t].pc = "r_sleep" -> RestartPause
      [] task[t].pc \in {"m_sleep", "m_xsleep"} -> health_check_interval
      [] OTHER -> 0

RECURSIVE Without(_, _)
Without(q, t) ==
    IF q = <<>> THEN <<>>
    ELSE IF Head(q) = t THEN Tail(q)
    ELSE <<Head(q)>> \o Without(Tail(q), t)

PosOf(q, t) == CHOOSE i \in 1..Len(q) : q[i] = t

\* asyncio wakes sleepers in deadline order: a sleep that began earlier and is
\* no longer than t's sleep ends before t's sleep does
CanWake(t) ==
    /\ \E i \in 1..Len(timers) : timers[i] = t
    /\ \A i \in 1..Len(timers) :
          i < PosOf(timers, t) => SleepOf(timers[i]) > SleepOf(t)

\* another task has an operation in progress on agent a
Busy(a, t) == \E u \in Tasks \ {t} : task[u].op # "none" /\ task[u].agent = a

\* bookkeeping: task t acts on agent a, so the operations other tasks have in
\* progress on a are no longer the only ones acting on it
Interfere(tk, t, a) ==
    [u \in Tasks |->
        IF u # t /\ tk[u].op # "none" /\ tk[u].agent = a
        THEN [tk[u] EXCEPT !.alone = FALSE] ELSE tk[u]]

\* ---- the registry's synchronous parts, as functions of one AgentInfo -------
\* stop_agent without the poll() test of line 167: it signals whatever handle
\* the agent has
stop_agentSignalsAlways(ag, in_time) ==
    [agent |-> [ag EXCEPT !.status = "stopped",
                          !.process = IF ag.process = "live" THEN "dead"
                                      ELSE ag.process],
     ret |-> TRUE,
     fx |-> IF ag.process # "none" THEN {"terminate"} ELSE {}]

\* stop_agent without the escalation of lines 176-179: a process that has not
\* exited when wait(5) times out is left running
stop_agentNoKill(ag, in_time) ==
    [agent |-> [ag EXCEPT !.status = "stopped",
                          !.process = IF ag.process = "live" /\ in_time
                                      THEN "dead" ELSE ag.process],
     ret |-> TRUE,
     fx |-> IF ag.process = "live" THEN {"terminate"} ELSE {}]

\* stop_agent: terminate() and wait(5); in_time is whether the process exits
\* within that wait, and when it does not, kill() and wait() follow, so that
\* either way the process has exited when stop_agent returns.  The handle is
\* kept; fx records that the process was signalled
stop_agent(ag, in_time) ==
    [agent |-> [ag EXCEPT !.status = "stopped",
                          !.process = IF ag.process = "live"
                                      THEN IF in_time THEN "dead" ELSE "dead"
                                      ELSE ag.process],
     ret |-> TRUE,
     fx |-> IF ag.process = "live" THEN {"terminate"} ELSE {}]

\* check_agent_health without lines 217-218 (a healthy probe does not bring a
\* crashed agent back)
check_agent_healthNoRecovery(ag, probe) ==
    CASE probe = "ok" ->
           [agent |-> [ag EXCEPT !.last_health_check = 1], ret |-> TRUE]
      [] probe = "http_error" ->
           [agent |-> ag, ret |-> FALSE]
      [] OTHER ->
           [agent |-> [ag EXCEPT !.status = IF ag.status = "running"
                                            THEN "crashed" ELSE ag.status],
            ret |-> FALSE]

\* check_agent_health counting a healthy probe against the restart budget
check_agent_healthCountsProbe(ag, probe) ==
    CASE probe = "ok" ->
           [agent |-> [ag EXCEPT !.last_health_check = 1,
                                 !.restart_count =
                                    IF @ < ag.max_restarts THEN @ + 1 ELSE @,
                                 !.status = IF ag.status = "crashed"
                                            THEN "running" ELSE ag.status],
            ret |-> TRUE]
      [] probe = "http_error" ->
           [agent |-> ag, ret |-> FALSE]
      [] OTHER ->
           [agent |-> [ag EXCEPT !.status = IF ag.status = "running"
                                            THEN "crashed" ELSE ag.status],
            ret |-> FALSE]

\* check_agent_health with the outcome of its GET /health
check_agent_health(ag, probe) ==
    CASE probe = "ok" ->
           [agent |-> [ag EXCEPT !.last_health_check = 1,
                                 !.status = IF ag.status = "crashed"
                                            THEN "running" ELSE ag.status],
            ret |-> TRUE]
      [] probe = "http_error" ->
           [agent |-> ag, ret |-> FALSE]
      [] OTHER ->
           [agent |-> [ag EXCEPT !.status = IF ag.status = "running"
                                            THEN "crashed" ELSE ag.status],
            ret |-> FALSE]

\* the first statement group of an operation
FirstPc(o) ==
    CASE o = "start" -> "s_stop"
      [] o = "stop" -> "t_stop"
      [] o = "restart" -> "r_check"
      [] OTHER -> "c_probe"

\* the coroutine of task t returns v: the task still owns the loop in pc "ret"
Returned(t, v, fx) ==
    [task EXCEPT ![t].pc = "ret",
                 ![t].ret = IF v THEN "True" ELSE "False",
                 ![t].fx = task[t].fx \cup fx]

\* ---- manual calls (API requests) -------------------------------------------
\* a caller invokes one registry operation for agent a
Call(t, o, a) ==
    /\ Idle
    /\ task[t].pc = "idle"
    /\ task' = [Interfere(task, t, a) EXCEPT
                  ![t] = [pc |-> FirstPc(o), op |-> o, agent |-> a, idx |-> 0,
                          ret |-> "none", fx |-> {},
                          st0 |-> agents[a].status,
                          cnt0 |-> agents[a].restart_count,
                          alone |-> ~Busy(a, t), probe |-> "none",
                          streak |-> NoStreak]]
    /\ running' = {t}
    /\ UNCHANGED <<agents, health_monitor_running, timers>>
    /\ UNCHANGED <<result, api_vars>>
    /\ history' = IF o \in {"start", "restart"}
                  THEN [history EXCEPT !.stopped = @ \ {a}]
                  ELSE history

\* the operation's result has been delivered; a caller's task ends, the
\* monitor goes on with the next agent of its cycle
Release(t) ==
    /\ Owns(t)
    /\ task[t].pc = "ret"
    /\ IF t = MonitorTask
       THEN /\ task' = [task EXCEPT ![t] = [IdleTask EXCEPT
                          !.pc = "m_agent", !.idx = task[t].idx + 1,
                          !.streak = task[t].streak]]
            /\ UNCHANGED running
       ELSE /\ task' = [task EXCEPT ![t] = IdleTask]
            /\ running' = {}
    /\ UNCHANGED <<agents, health_monitor_running, timers>>
    /\ UNCHANGED <<result, api_vars, history>>

\* asyncio.sleep of task t ends and the task resumes
Wake(t) ==
    /\ Idle
    /\ CanWake(t)
    /\ timers' = Without(timers, t)
    /\ running' = {t}
    /\ task' = [task EXCEPT ![t].pc =
                  CASE task[t].pc = "s_sleep" -> "s_poll"
                    [] task[t].pc = "r_sleep" -> "s_stop"
                    [] OTHER -> "m_while"]
    /\ UNCHANGED <<agents, health_monitor_running>>
    /\ UNCHANGED <<result, api_vars, history>>

\* ---- stop_agent and check_agent_health called directly ---------------------
StopCall(t) ==
    /\ Owns(t)
    /\ task[t].pc = "t_stop"
    /\ \E in_time \in BOOLEAN : LET r == stop_agent(Agent(t), in_time) IN
         /\ agents' = [agents EXCEPT ![task[t].agent] = r.agent]
         /\ task' = Returned(t, r.ret, r.fx)
    /\ UNCHANGED <<health_monitor_running, running, timers>>
    /\ UNCHANGED <<result, api_vars>>
    /\ history' = [history EXCEPT !.stopped = @ \cup {task[t].agent}]

CheckCall(t) ==
    /\ Owns(t)
    /\ task[t].pc = "c_probe"
    /\ \E probe \in ProbeOutcomes :
         LET r == check_agent_health(Agent(t), probe) IN
           /\ agents' = [agents EXCEPT ![task[t].agent] = r.agent]
           /\ task' = [Returned(t, r.ret, {}) EXCEPT ![t].probe = probe]
    /\ UNCHANGED <<health_monitor_running, running, timers>>
    /\ UNCHANGED <<result, api_vars, history>>

\* ---- start_agent (called directly, or by restart_agent) --------------------
\* SStop deciding by the status instead of the process: it stops the old
\* process only when the agent is recorded as Running
SStopIfRunning(t) ==
    /\ Owns(t)
    /\ task[t].pc = "s_stop"
    /\ \E in_time \in BOOLEAN :
       LET ag == Agent(t)
           r == stop_agent(ag, in_time) IN
         IF ag.status = "running"
         THEN /\ agents' = [agents EXCEPT ![task[t].agent] = r.agent]
              /\ task' = [task EXCEPT ![t].pc = "s_set",
                                      ![t].fx = task[t].fx \cup r.fx]
         ELSE /\ task' = [task EXCEPT ![t].pc = "s_set"]
              /\ UNCHANGED agents
    /\ UNCHANGED <<health_monitor_running, running, timers>>
    /\ UNCHANGED <<result, api_vars, history>>

\* lines 113-115: stop the existing process if it is running
SStop(t) ==
    /\ Owns(t)
    /\ task[t].pc = "s_stop"
    /\ \E in_time \in BOOLEAN :
       LET ag == Agent(t)
           r == stop_agent(ag, in_time) IN
         IF ag.process = "live"
         THEN /\ agents' = [agents EXCEPT ![task[t].agent] = r.agent]
              /\ task' = [task EXCEPT ![t].pc = "s_set",
                                      ![t].fx = task[t].fx \cup r.fx]
         ELSE /\ task' = [task EXCEPT ![t].pc = "s_set"]
              /\ UNCHANGED agents
    /\ UNCHANGED <<health_monitor_running, running, timers>>
    /\ UNCHANGED <<result, api_vars, history>>

\* line 119
SSet(t) ==
    /\ Owns(t)
    /\ task[t].pc = "s_set"
    /\ agents' = [agents EXCEPT ![task[t].agent].status = "starting"]
    /\ task' = [task EXCEPT ![t].pc = "s_spawn"]
    /\ UNCHANGED <<health_monitor_running, running, timers>>
    /\ UNCHANGED <<result, api_vars, history>>

\* SSpawnOk moving the agent to the next port at each spawn
SSpawnOkNextPort(t) ==
    /\ Owns(t)
    /\ task[t].pc = "s_spawn"
    /\ agents' = [agents EXCEPT ![task[t].agent].process = "live",
                                ![task[t].agent].port = @ + 1]
    /\ task' = [task EXCEPT ![t].pc = "s_sleep",
                            ![t].fx = task[t].fx \cup {"spawn"}]
    /\ running' = {}
    /\ timers' = Append(timers, t)
    /\ UNCHANGED health_monitor_running
    /\ UNCHANGED <<result, api_vars, history>>

\* lines 122-127: Popen succeeds and the task sleeps the startup wait
SSpawnOk(t) ==
    /\ Owns(t)
    /\ task[t].pc = "s_spawn"
    /\ agents' = [agents EXCEPT ![task[t].agent].process = "live"]
    /\ task' = [task EXCEPT ![t].pc = "s_sleep",
                            ![t].fx = task[t].fx \cup {"spawn"}]
    /\ running' = {}
    /\ timers' = Append(timers, t)
    /\ UNCHANGED health_monitor_running
    /\ UNCHANGED <<result, api_vars, history>>

\* lines 145-148: Popen raises
SSpawnFail(t) ==
    /\ Owns(t)
    /\ task[t].pc = "s_spawn"
    /\ agents' = [agents EXCEPT ![task[t].agent].status = "crashed"]
    /\ task' = Returned(t, FALSE, {})
    /\ UNCHANGED <<health_monitor_running, running, timers>>
    /\ UNCHANGED <<result, api_vars, history>>

\* lines 130, 140-143: after the wait, has the process exited?
SPoll(t) ==
    /\ Owns(t)
    /\ task[t].pc = "s_poll"
    /\ IF Agent(t).process = "live"
       THEN /\ task' = [task EXCEPT ![t].pc = "s_probe"]
            /\ UNCHANGED agents
       ELSE /\ agents' = [agents EXCEPT ![task[t].agent].status = "crashed"]
            /\ task' = Returned(t, FALSE, {})
    /\ UNCHANGED <<health_monitor_running, running, timers>>
    /\ UNCHANGED <<result, api_vars, history>>

\* line 132: the one health probe of the startup
SProbe(t) ==
    /\ Owns(t)
    /\ task[t].pc = "s_probe"
    /\ \E probe \in ProbeOutcomes :
         LET r == check_agent_health(Agent(t), probe) IN
           /\ agents' = [agents EXCEPT ![task[t].agent] = r.agent]
           /\ task' = [task EXCEPT ![t].pc = IF r.ret THEN "s_run" ELSE "s_fail",
                                   ![t].probe = probe]
    /\ UNCHANGED <<health_monitor_running, running, timers>>
    /\ UNCHANGED <<result, api_vars, history>>

\* SRun clearing restart_count when the agent has come up
SRunResetsCount(t) ==
    /\ Owns(t)
    /\ task[t].pc = "s_run"
    /\ agents' = [agents EXCEPT ![task[t].agent].status = "running",
                                ![task[t].agent].restart_count = 0]
    /\ task' = [Returned(t, TRUE, {}) EXCEPT ![t].probe = "none"]
    /\ UNCHANGED <<health_monitor_running, running, timers>>
    /\ UNCHANGED <<result, api_vars, history>>

\* lines 133-135
SRun(t) ==
    /\ Owns(t)
    /\ task[t].pc = "s_run"
    /\ agents' = [agents EXCEPT ![task[t].agent].status = "running"]
    /\ task' = [Returned(t, TRUE, {}) EXCEPT ![t].probe = "none"]
    /\ UNCHANGED <<health_monitor_running, running, timers>>
    /\ UNCHANGED <<result, api_vars, history>>

\* SFail returning False without stopping the agent it found unhealthy
SFailLeavesStarting(t) ==
    /\ Owns(t)
    /\ task[t].pc = "s_fail"
    /\ task' = [Returned(t, FALSE, {}) EXCEPT ![t].probe = "none"]
    /\ UNCHANGED <<agents, health_monitor_running, running, timers>>
    /\ UNCHANGED <<result, api_vars, history>>

\* lines 137-139: the probe failed
SFail(t) ==
    /\ Owns(t)
    /\ task[t].pc = "s_fail"
    /\ \E in_time \in BOOLEAN : LET r == stop_agent(Agent(t), in_time) IN
         /\ agents' = [agents EXCEPT ![task[t].agent] = r.agent]
         /\ task' = [Returned(t, FALSE, r.fx) EXCEPT ![t].probe = "none"]
    /\ UNCHANGED <<health_monitor_running, running, timers>>
    /\ UNCHANGED <<result, api_vars, history>>

\* ---- restart_agent (called directly, or by the monitor) --------------------
\* RCheck with the limit test off by one (> for >=)
RCheckOffByOne(t) ==
    /\ Owns(t)
    /\ task[t].pc = "r_check"
    /\ IF Agent(t).restart_count > Agent(t).max_restarts
       THEN /\ agents' = [agents EXCEPT ![task[t].agent].status = "crashed"]
            /\ task' = [Returned(t, FALSE, {}) EXCEPT ![t].probe = "none"]
       ELSE /\ task' = [task EXCEPT ![t].pc = "r_set", ![t].probe = "none"]
            /\ UNCHANGED agents
    /\ UNCHANGED <<health_monitor_running, running, timers>>
    /\ UNCHANGED <<result, api_vars, history>>

\* RCheck marking the refused agent stopped instead of crashed
RCheckWrongStatus(t) ==
    /\ Owns(t)
    /\ task[t].pc = "r_check"
    /\ IF Agent(t).restart_count >= Agent(t).max_restarts
       THEN /\ agents' = [agents EXCEPT ![task[t].agent].status = "stopped"]
            /\ task' = [Returned(t, FALSE, {}) EXCEPT ![t].probe = "none"]
       ELSE /\ task' = [task EXCEPT ![t].pc = "r_set", ![t].probe = "none"]
            /\ UNCHANGED agents
    /\ UNCHANGED <<health_monitor_running, running, timers>>
    /\ UNCHANGED <<result, api_vars, history>>

\* lines 246-249: the restart limit
RCheck(t) ==
    /\ Owns(t)
    /\ task[t].pc = "r_check"
    /\ IF Agent(t).restart_count >= Agent(t).max_restarts
       THEN /\ agents' = [agents EXCEPT ![task[t].agent].status = "crashed"]
            /\ task' = [Returned(t, FALSE, {}) EXCEPT ![t].probe = "none"]
       ELSE /\ task' = [task EXCEPT ![t].pc = "r_set", ![t].probe = "none"]
            /\ UNCHANGED agents
    /\ UNCHANGED <<health_monitor_running, running, timers>>
    /\ UNCHANGED <<result, api_vars, history>>

\* RSet without the increment of restart_count
RSetNoIncrement(t) ==
    /\ Owns(t)
    /\ task[t].pc = "r_set"
    /\ agents' = [agents EXCEPT ![task[t].agent].status = "restarting"]
    /\ task' = [task EXCEPT ![t].pc = "r_stop"]
    /\ UNCHANGED <<health_monitor_running, running, timers>>
    /\ UNCHANGED <<result, api_vars, history>>

\* RSet counting the restart against every agent
RSetCountsAll(t) ==
    /\ Owns(t)
    /\ task[t].pc = "r_set"
    /\ agents' = [a \in Agents |->
                    IF a = task[t].agent
                    THEN [agents[a] EXCEPT !.status = "restarting",
                                           !.restart_count = @ + 1]
                    ELSE [agents[a] EXCEPT
                            !.restart_count =
                               IF @ < agents[a].max_restarts THEN @ + 1 ELSE @]]
    /\ task' = [task EXCEPT ![t].pc = "r_stop"]
    /\ UNCHANGED <<health_monitor_running, running, timers>>
    /\ UNCHANGED <<result, api_vars, history>>

\* lines 253-254
RSet(t) ==
    /\ Owns(t)
    /\ task[t].pc = "r_set"
    /\ agents' = [agents EXCEPT
                    ![task[t].agent].status = "restarting",
                    ![task[t].agent].restart_count = @ + 1]
    /\ task' = [task EXCEPT ![t].pc = "r_stop"]
    /\ UNCHANGED <<health_monitor_running, running, timers>>
    /\ UNCHANGED <<result, api_vars, history>>

\* lines 257-258: stop, then the pause before the start
RStop(t) ==
    /\ Owns(t)
    /\ task[t].pc = "r_stop"
    /\ \E in_time \in BOOLEAN : LET r == stop_agent(Agent(t), in_time) IN
         /\ agents' = [agents EXCEPT ![task[t].agent] = r.agent]
         /\ task' = [task EXCEPT ![t].pc = "r_sleep",
                                 ![t].fx = task[t].fx \cup r.fx]
    /\ running' = {}
    /\ timers' = Append(timers, t)
    /\ UNCHANGED health_monitor_running
    /\ UNCHANGED <<result, api_vars, history>>

\* ---- the health monitor ----------------------------------------------------
\* asyncio.create_task(registry.start_health_monitor())
MCreate ==
    /\ Idle
    /\ task[MonitorTask].pc = "m_none"
    /\ task' = [task EXCEPT ![MonitorTask].pc = "m_new"]
    /\ UNCHANGED <<agents, health_monitor_running, running, timers>>
    /\ UNCHANGED <<result, api_vars, history>>

\* line 338: the monitor task runs its first statement
MBegin ==
    /\ Idle
    /\ task[MonitorTask].pc = "m_new"
    /\ health_monitor_running' = TRUE
    /\ task' = [task EXCEPT ![MonitorTask].pc = "m_while"]
    /\ running' = {MonitorTask}
    /\ UNCHANGED <<agents, timers>>
    /\ UNCHANGED <<result, api_vars, history>>

\* MWhile without the test of health_monitor_running (while True)
MWhileIgnoresStop ==
    /\ Owns(MonitorTask)
    /\ task[MonitorTask].pc = "m_while"
    /\ task' = [task EXCEPT ![MonitorTask].pc = "m_agent",
                            ![MonitorTask].idx = 1]
    /\ UNCHANGED <<agents, health_monitor_running, running, timers>>
    /\ UNCHANGED <<result, api_vars, history>>

\* line 340: the loop condition
MWhile ==
    /\ Owns(MonitorTask)
    /\ task[MonitorTask].pc = "m_while"
    /\ IF health_monitor_running
       THEN /\ task' = [task EXCEPT ![MonitorTask].pc = "m_agent",
                                    ![MonitorTask].idx = 1]
            /\ UNCHANGED running
       ELSE /\ task' = [task EXCEPT ![MonitorTask].pc = "m_done",
                                    ![MonitorTask].idx = 0]
            /\ running' = {}
    /\ UNCHANGED <<agents, health_monitor_running, timers>>
    /\ UNCHANGED <<result, api_vars, history>>

\* line 352: the cycle is over
MSleep ==
    /\ Owns(MonitorTask)
    /\ task[MonitorTask].pc = "m_agent"
    /\ task[MonitorTask].idx > Len(AgentOrder)
    /\ task' = [task EXCEPT ![MonitorTask].pc = "m_sleep",
                            ![MonitorTask].idx = 0,
                            ![MonitorTask].agent = "none",
                            ![MonitorTask].st0 = "none",
                            ![MonitorTask].probe = "none"]
    /\ running' = {}
    /\ timers' = Append(timers, MonitorTask)
    /\ UNCHANGED <<agents, health_monitor_running>>
    /\ UNCHANGED <<result, api_vars, history>>

\* line 344: an agent that is neither running nor crashed is passed over
MSkip ==
    /\ Owns(MonitorTask)
    /\ task[MonitorTask].pc = "m_agent"
    /\ task[MonitorTask].idx <= Len(AgentOrder)
    /\ agents[AgentOrder[task[MonitorTask].idx]].status \notin {"running", "crashed"}
    /\ task' = [task EXCEPT ![MonitorTask].idx = @ + 1,
                            ![MonitorTask].agent = "none",
                            ![MonitorTask].st0 = "none",
                            ![MonitorTask].probe = "none",
                            ![MonitorTask].streak[AgentOrder[task[MonitorTask].idx]] = 0]
    /\ UNCHANGED <<agents, health_monitor_running, running, timers>>
    /\ UNCHANGED <<result, api_vars, history>>

\* MProbe probing every agent that is not Stopped (line 344 testing for
\* STOPPED instead of listing RUNNING and CRASHED)
MProbeNotStopped ==
    /\ Owns(MonitorTask)
    /\ task[MonitorTask].pc = "m_agent"
    /\ task[MonitorTask].idx <= Len(AgentOrder)
    /\ LET a == AgentOrder[task[MonitorTask].idx] IN
         /\ agents[a].status # "stopped"
         /\ \E probe \in ProbeOutcomes :
              LET r == check_agent_health(agents[a], probe) IN
                /\ agents' = [agents EXCEPT ![a] = r.agent]
                /\ history' = IF ~r.ret /\ r.agent.status = "crashed"
                              THEN [history EXCEPT !.stopped = @ \ {a}]
                              ELSE history
                /\ IF ~r.ret /\ r.agent.status = "crashed"
                   THEN task' = [Interfere(task, MonitorTask, a) EXCEPT
                                   ![MonitorTask] =
                                      [pc |-> "r_check", op |-> "restart",
                                       agent |-> a,
                                       idx |-> task[MonitorTask].idx,
                                       ret |-> "none", fx |-> {},
                                       st0 |-> r.agent.status,
                                       cnt0 |-> r.agent.restart_count,
                                       alone |-> ~Busy(a, MonitorTask),
                                       probe |-> probe,
                                       streak |-> [task[MonitorTask].streak
                                                     EXCEPT ![a] = 0]]]
                   ELSE task' = [Interfere(task, MonitorTask, a) EXCEPT
                                   ![MonitorTask].idx = @ + 1,
                                   ![MonitorTask].agent = a,
                                   ![MonitorTask].st0 = agents[a].status,
                                   ![MonitorTask].probe = probe,
                                   ![MonitorTask].streak[a] =
                                      IF agents[a].status = "running" /\ r.ret
                                      THEN IF @ < MaxCycles THEN @ + 1 ELSE @
                                      ELSE 0]
    /\ UNCHANGED <<health_monitor_running, running, timers>>
    /\ UNCHANGED <<result, api_vars>>

\* lines 345-350: probe the agent; restart it if it is crashed and unhealthy
MProbe ==
    /\ Owns(MonitorTask)
    /\ task[MonitorTask].pc = "m_agent"
    /\ task[MonitorTask].idx <= Len(AgentOrder)
    /\ LET a == AgentOrder[task[MonitorTask].idx] IN
         /\ agents[a].status \in {"running", "crashed"}
         /\ \E probe \in ProbeOutcomes :
              LET r == check_agent_health(agents[a], probe) IN
                /\ agents' = [agents EXCEPT ![a] = r.agent]
                /\ history' = IF ~r.ret /\ r.agent.status = "crashed"
                              THEN [history EXCEPT !.stopped = @ \ {a}]
                              ELSE history
                /\ IF ~r.ret /\ r.agent.status = "crashed"
                   THEN task' = [Interfere(task, MonitorTask, a) EXCEPT
                                   ![MonitorTask] =
                                      [pc |-> "r_check", op |-> "restart",
                                       agent |-> a,
                                       idx |-> task[MonitorTask].idx,
                                       ret |-> "none", fx |-> {},
                                       st0 |-> r.agent.status,
                                       cnt0 |-> r.agent.restart_count,
                                       alone |-> ~Busy(a, MonitorTask),
                                       probe |-> probe,
                                       streak |-> [task[MonitorTask].streak
                                                     EXCEPT ![a] = 0]]]
                   ELSE task' = [Interfere(task, MonitorTask, a) EXCEPT
                                   ![MonitorTask].idx = @ + 1,
                                   ![MonitorTask].agent = a,
                                   ![MonitorTask].st0 = agents[a].status,
                                   ![MonitorTask].probe = probe,
                                   ![MonitorTask].streak[a] =
                                      IF agents[a].status = "running" /\ r.ret
                                      THEN IF @ < MaxCycles THEN @ + 1 ELSE @
                                      ELSE 0]
    /\ UNCHANGED <<health_monitor_running, running, timers>>
    /\ UNCHANGED <<result, api_vars>>

\* MExcept with the exception ending the loop instead of being caught
MExceptEndsLoop ==
    /\ Owns(MonitorTask)
    /\ task[MonitorTask].pc = "m_agent"
    /\ task' = [task EXCEPT ![MonitorTask] =
                  [IdleTask EXCEPT !.pc = "m_done"]]
    /\ running' = {}
    /\ UNCHANGED <<agents, health_monitor_running, timers>>
    /\ UNCHANGED <<result, api_vars, history>>

\* lines 354-356: an exception is raised in the for loop of a cycle; the rest
\* of the cycle is abandoned, the handler logs it and sleeps the interval
MExcept ==
    /\ Owns(MonitorTask)
    /\ task[MonitorTask].pc = "m_agent"
    /\ task' = [task EXCEPT ![MonitorTask] =
                  [IdleTask EXCEPT !.pc = "m_xsleep", !.probe = "raised"]]
    /\ running' = {}
    /\ timers' = Append(timers, MonitorTask)
    /\ UNCHANGED <<agents, health_monitor_running>>
    /\ UNCHANGED <<result, api_vars, history>>

\* stop_health_monitor()
stop_health_monitor ==
    /\ Idle
    /\ health_monitor_running' = FALSE
    /\ UNCHANGED <<agents, task, running, timers>>
    /\ UNCHANGED <<result, api_vars>>
    /\ history' = [history EXCEPT
                     !.stop_requested =
                        @ \/ task[MonitorTask].pc \notin {"m_none", "m_done"}]

\* ---- the environment -------------------------------------------------------
\* the worker process of agent a exits on its own
ProcessExit(a) ==
    /\ agents[a].process = "live"
    /\ agents' = [agents EXCEPT ![a].process = "dead"]
    /\ UNCHANGED <<health_monitor_running, task, running, timers>>
    /\ UNCHANGED <<result, api_vars, history>>

\* ---- the specification -----------------------------------------------------
Step(t) ==
    \/ Release(t)
    \/ Wake(t)
    \/ StopCall(t)
    \/ CheckCall(t)
    \/ SStop(t)
    \/ SSet(t)
    \/ SSpawnOk(t)
    \/ SSpawnFail(t)
    \/ SPoll(t)
    \/ SProbe(t)
    \/ SRun(t)
    \/ SFail(t)
    \/ RCheck(t)
    \/ RSet(t)
    \/ RStop(t)

Monitor ==
    \/ MCreate
    \/ MBegin
    \/ MWhile
    \/ MSleep
    \/ MSkip
    \/ MProbe

Next ==
    \/ \E t \in Callers, o \in ManualOps, a \in CallAgents : Call(t, o, a)
    \/ \E t \in Tasks : Step(t)
    \/ Monitor
    \/ stop_health_monitor
    \/ \E a \in Agents : ProcessExit(a)

Spec == Init /\ [][Next]_vars

\* the program with exceptions raised inside monitor cycles
NextWithErrors == Next \/ MExcept

SpecWithErrors == Init /\ [][NextWithErrors]_vars

\* the event loop runs every task that is ready and every timer that is due:
\* a task that can take its next step again and again does take it.  Nothing
\* is assumed of the callers, of stop_health_monitor, of the creation of the
\* monitor task or of the worker processes
Fairness ==
    /\ \A t \in Tasks : SF_vars(Step(t))
    /\ SF_vars(MBegin \/ MWhile \/ MSleep \/ MSkip \/ MProbe)

FairSpec == Spec /\ Fairness

FairSpecWithErrors == SpecWithErrors /\ Fairness

\* the registry with the code agent started before: Running with its worker
\* alive, or Crashed with its worker gone
InitTwoAgents ==
    /\ \E st \in {"running", "crashed"} :
          agents = [ConfiguredAgents EXCEPT
                      !["code"].status = st,
                      !["code"].process = IF st = "running" THEN "live"
                                          ELSE "dead",
                      !["code"].last_health_check = 1]
    /\ health_monitor_running = FALSE
    /\ history = NoHistory
    /\ task = [t \in Tasks |->
                 IF t = MonitorTask THEN [IdleTask EXCEPT !.pc = "m_none"]
                 ELSE IdleTask]
    /\ running = {}
    /\ timers = <<>>
    /\ result = NoResult
    /\ ApiInit

\* the registry's operations on browser and the monitor, with a second
\* agent in use
SpecTwoAgents == InitTwoAgents /\ [][Next]_vars

\* ---- the registry's query functions ---------------------------------------
\* the names the query functions are called with: the agents and a name that
\* is no agent
Names == Agents \cup {"unknown"}

\* fallback_map with the chain of browser pointing at code
fallback_mapBrowserToCode(name) ==
    CASE name = "browser" -> <<"code">>
      [] name = "code" -> <<"casual">>
      [] name = "file" -> <<"casual">>
      [] name = "planner" -> <<"casual", "code">>
      [] name = "casual" -> <<>>
      [] OTHER -> <<>>

\* self.fallback_map.get(name, [])
fallback_map(name) ==
    CASE name = "browser" -> <<"casual">>
      [] name = "code" -> <<"casual">>
      [] name = "file" -> <<"casual">>
      [] name = "planner" -> <<"casual", "code">>
      [] name = "casual" -> <<>>
      [] OTHER -> <<>>

\* get_healthy_agents taking every agent that is not stopped for healthy
get_healthy_agentsNotStopped ==
    LET healthy(name) == agents[name].status # "stopped"
    IN  SelectSeq(AgentOrder, healthy)

\* get_healthy_agents: the names, in the order of self.agents, whose status
\* is RUNNING
get_healthy_agents ==
    LET healthy(name) == agents[name].status = "running"
    IN  SelectSeq(AgentOrder, healthy)

\* is name an element of the list seq
InList(name, seq) == \E i \in 1..Len(seq) : seq[i] = name

\* get_fallback_agents without the filter on healthy agents
get_fallback_agentsUnfiltered(failed_agent) ==
    fallback_map(failed_agent)

\* get_fallback_agents going through the healthy agents and keeping those of
\* the chain, instead of going through the chain
get_fallback_agentsHealthyOrder(failed_agent) ==
    LET fallbacks == fallback_map(failed_agent)
        healthy_agents == get_healthy_agents
        in_chain(agent) == InList(agent, fallbacks)
    IN  SelectSeq(healthy_agents, in_chain)

\* get_fallback_agents: the members of the chain that are healthy, in the
\* order of the chain
get_fallback_agents(failed_agent) ==
    LET fallbacks == fallback_map(failed_agent)
        healthy_agents == get_healthy_agents
        is_healthy(agent) == InList(agent, healthy_agents)
    IN  SelectSeq(fallbacks, is_healthy)

\* seq with every name kept at its first occurrence only
RECURSIVE Dedup(_)
Dedup(seq) ==
    IF seq = <<>> THEN <<>>
    ELSE LET front == Dedup(SubSeq(seq, 1, Len(seq) - 1))
             last == seq[Len(seq)]
         IN  IF InList(last, front) THEN front ELSE Append(front, last)

\* the router's candidate list for a requested agent: the requested agent,
\* if the registry reports it healthy, followed by the registry's healthy
\* fallbacks for it, every name once
resolveCandidates(requestedAgent) ==
    Dedup((IF InList(requestedAgent, get_healthy_agents)
           THEN <<requestedAgent>> ELSE <<>>)
          \o get_fallback_agents(requestedAgent))

\* the agent a query for requestedAgent is routed to: the first candidate,
\* or the failure NoHealthyAgent when there is none
route(requestedAgent) ==
    IF resolveCandidates(requestedAgent) = <<>> THEN "NoHealthyAgent"
    ELSE Head(resolveCandidates(requestedAgent))

\* a call of get_healthy_agents
GetHealthy ==
    /\ result' = [fn |-> "get_healthy_agents", arg |-> "none",
                  value |-> get_healthy_agents]
    /\ UNCHANGED <<registry_vars, api_vars>>

\* a call of get_fallback_agents(name)
GetFallback(name) ==
    /\ result' = [fn |-> "get_fallback_agents", arg |-> name,
                  value |-> get_fallback_agents(name)]
    /\ UNCHANGED <<registry_vars, api_vars>>

\* the router resolves the candidates for name
Resolve(name) ==
    /\ result' = [fn |-> "resolveCandidates", arg |-> name,
                  value |-> resolveCandidates(name)]
    /\ UNCHANGED <<registry_vars, api_vars>>

\* the router picks the agent for a query for name
Route(name) ==
    /\ result' = [fn |-> "route", arg |-> name, value |-> <<route(name)>>]
    /\ UNCHANGED <<registry_vars, api_vars>>

\* the registry with its agents in any statuses (a Starting or Running agent
\* with its process alive, a Crashed or Restarting one with its process
\* gone, an agent in Restarting counted a restart), no operation in progress
RoutingInit ==
    /\ \E st \in [Agents -> AgentStatus] :
          agents = [a \in Agents |->
                      [ConfiguredAgents[a] EXCEPT
                         !.status = st[a],
                         !.process =
                            CASE st[a] \in {"starting", "running"} -> "live"
                              [] st[a] = "stopped" -> "none"
                              [] OTHER -> "dead",
                         !.restart_count =
                            IF st[a] = "restarting" THEN 1 ELSE 0]]
    /\ health_monitor_running = FALSE
    /\ history = NoHistory
    /\ task = [t \in Tasks |->
                 IF t = MonitorTask THEN [IdleTask EXCEPT !.pc = "m_none"]
                 ELSE IdleTask]
    /\ running = {}
    /\ timers = <<>>
    /\ result = NoResult
    /\ ApiInit

RoutingNext ==
    \/ GetHealthy
    \/ \E name \in Names : GetFallback(name)
    \/ \E name \in Names : Resolve(name)
    \/ \E name \in Names : Route(name)

\* the query functions called on a registry in any state
SpecRouting == RoutingInit /\ [][RoutingNext]_vars

\* ---- the API's query endpoint and the dispatch of a query ------------------
\* the queries the API accepts in a run
MaxQueries == 2

\* the agents queries are addressed to (request.selected_agent)
QueryAgents == {"browser", "planner"}

\* the agents a query for one of QueryAgents can reach
DispatchAgents == {"browser", "planner", "casual", "code"}

\* a background task asyncio.create_task has just created for the query with
\* this uid: pc is its place ("created", "forward" while route_query forwards
\* to candidates[idx], "done"), candidates the list resolved for it, failed
\* the candidates that did not answer, answered the one that did
NewBackground(uid, selected_agent) ==
    [uid |-> uid, selected_agent |-> selected_agent, pc |-> "created",
     candidates |-> <<>>, idx |-> 0, failed |-> <<>>, answered |-> "none"]

\* POST /query (lines 110-149): publish an empty record with a fresh uid and
\* start process_query_background as a task
query_endpoint(selected_agent) ==
    /\ Len(background) < MaxQueries
    /\ now' = now + 1
    /\ processing_query' = TRUE
    /\ latest_answer_data' = [agent_name |-> "", status |-> "processing",
                              done |-> FALSE, uid |-> now + 1,
                              error |-> "None"]
    /\ background' = Append(background, NewBackground(now + 1, selected_agent))
    /\ UNCHANGED <<registry_vars, result>>

\* what route_query gives process_query_background: the answer of an agent
Answer(agent_name) ==
    [kind |-> "result", agent_name |-> agent_name, status |-> "completed",
     error |-> "None"]

\* or a failure, raised as an exception or returned as an error result
Failure(raises, error) ==
    [kind |-> IF raises THEN "raises" ELSE "result", agent_name |-> "unknown",
     status |-> "error", error |-> error]

\* process_query_background publishing a result without the name of the agent
\* that produced it
process_query_backgroundUnknownAgent(data, outcome) ==
    IF outcome.kind = "result"
    THEN [data EXCEPT !.agent_name = "unknown",
                      !.status = outcome.status,
                      !.done = TRUE,
                      !.error = outcome.error]
    ELSE [data EXCEPT !.agent_name = "system",
                      !.status = "error",
                      !.done = TRUE,
                      !.error = "error_msg"]

\* process_query_background whose except branch publishes nothing
process_query_backgroundSilent(data, outcome) ==
    IF outcome.kind = "result"
    THEN [data EXCEPT !.agent_name = outcome.agent_name,
                      !.status = outcome.status,
                      !.done = TRUE,
                      !.error = outcome.error]
    ELSE data

\* process_query_background from the return of route_query on (lines
\* 166-194): latest_answer_data.update with the result, or with the error
\* record when anything in the try body raised
process_query_background(data, outcome) ==
    IF outcome.kind = "result"
    THEN [data EXCEPT !.agent_name = outcome.agent_name,
                      !.status = outcome.status,
                      !.done = TRUE,
                      !.error = outcome.error]
    ELSE [data EXCEPT !.agent_name = "system",
                      !.status = "error",
                      !.done = TRUE,
                      !.error = "error_msg"]

\* a background task ends with this outcome of route_query: the update of
\* latest_answer_data and the finally clause
Finish(outcome) ==
    /\ latest_answer_data' = process_query_background(latest_answer_data, outcome)
    /\ processing_query' = FALSE
    /\ now' = now

\* the call of route_query raises at once, as it does on the router of
\* mcp_fault_tolerant_router.py, which has no such method
BgRaise(i) ==
    /\ i \in 1..Len(background)
    /\ background[i].pc = "created"
    /\ background' = [background EXCEPT ![i].pc = "done"]
    /\ Finish(Failure(TRUE, "AttributeError"))
    /\ UNCHANGED <<registry_vars, result>>

\* route_query resolves the candidates for the query, once; with none it
\* fails with NoHealthyAgent
BgRoute(i) ==
    /\ i \in 1..Len(background)
    /\ background[i].pc = "created"
    /\ LET cands == resolveCandidates(background[i].selected_agent)
       IN  \/ /\ cands # <<>>
              /\ background' = [background EXCEPT ![i].pc = "forward",
                                                  ![i].candidates = cands,
                                                  ![i].idx = 1]
              /\ UNCHANGED api_vars_but_background
           \/ /\ cands = <<>>
              /\ background' = [background EXCEPT ![i].pc = "done"]
              /\ \E raises \in BOOLEAN :
                    Finish(Failure(raises, "NoHealthyAgent"))
    /\ UNCHANGED <<registry_vars, result>>

\* the registry's record of a candidate that did not answer: unhealthy
MarkUnhealthy(ag) ==
    [ag EXCEPT !.status = IF ag.status = "running" THEN "crashed"
                          ELSE ag.status]

\* BgForward resolving the candidates again after a failed forward instead of
\* going on in the list it has
BgForwardResolvesAgain(i) ==
    /\ i \in 1..Len(background)
    /\ background[i].pc = "forward"
    /\ LET b == background[i]
           c == b.candidates[b.idx]
           marked == [agents EXCEPT ![c] = MarkUnhealthy(agents[c])]
           again == LET alive(a) == marked[a].status = "running"
                    IN  SelectSeq(<<b.selected_agent>>
                                  \o fallback_map(b.selected_agent), alive)
       IN  \/ /\ agents[c].process = "live"
              /\ background' = [background EXCEPT ![i].pc = "done",
                                                  ![i].answered = c]
              /\ Finish(Answer(c))
              /\ UNCHANGED agents
           \/ /\ again # <<>>
              /\ agents' = marked
              /\ background' = [background EXCEPT
                                  ![i].candidates = again,
                                  ![i].idx = 1,
                                  ![i].failed = Append(b.failed, c)]
              /\ UNCHANGED api_vars_but_background
           \/ /\ again = <<>>
              /\ agents' = marked
              /\ background' = [background EXCEPT
                                  ![i].pc = "done",
                                  ![i].failed = Append(b.failed, c)]
              /\ \E raises \in BOOLEAN :
                    Finish(Failure(raises, "AllAgentsFailed"))
    /\ UNCHANGED <<health_monitor_running, task, running, timers, history, result>>

\* route_query forwards the query to the current candidate of the resolved
\* list.  The worker answers (only a live process can) and its answer is
\* the result; or the request fails or times out, the candidate is marked
\* unhealthy and the next candidate of the same list is tried, the dispatch
\* failing with AllAgentsFailed after the last one
BgForward(i) ==
    /\ i \in 1..Len(background)
    /\ background[i].pc = "forward"
    /\ LET b == background[i]
           c == b.candidates[b.idx]
       IN  \/ /\ agents[c].process = "live"
              /\ background' = [background EXCEPT ![i].pc = "done",
                                                  ![i].answered = c]
              /\ Finish(Answer(c))
              /\ UNCHANGED agents
           \/ /\ b.idx < Len(b.candidates)
              /\ agents' = [agents EXCEPT ![c] = MarkUnhealthy(agents[c])]
              /\ background' = [background EXCEPT
                                  ![i].idx = b.idx + 1,
                                  ![i].failed = Append(b.failed, c)]
              /\ UNCHANGED api_vars_but_background
           \/ /\ b.idx = Len(b.candidates)
              /\ agents' = [agents EXCEPT ![c] = MarkUnhealthy(agents[c])]
              /\ background' = [background EXCEPT
                                  ![i].pc = "done",
                                  ![i].failed = Append(b.failed, c)]
              /\ \E raises \in BOOLEAN :
                    Finish(Failure(raises, "AllAgentsFailed"))
    /\ UNCHANGED <<health_monitor_running, task, running, timers, history, result>>

\* POST /stop (lines 249-260)
stop_processing ==
    /\ processing_query
    /\ processing_query' = FALSE
    /\ UNCHANGED <<registry_vars, result, latest_answer_data, background, now>>

\* a health probe of agent a by the registry that changes the agent's
\* status, answered by a live worker and refused by a dead one
ApiProbe(a) ==
    /\ agents[a].status \in {"running", "crashed"}
    /\ LET r == check_agent_health(agents[a],
                                   IF agents[a].process = "live"
                                   THEN "ok" ELSE "exception")
       IN  /\ r.agent.status # agents[a].status
           /\ agents' = [agents EXCEPT ![a] = r.agent]
    /\ UNCHANGED <<health_monitor_running, task, running, timers, history, result,
                   api_vars>>

\* a step of background task i
BgStep(i) ==
    \/ BgRaise(i)
    \/ BgRoute(i)
    \/ BgForward(i)

\* the agents the API dispatches to are Running with a live worker or
\* Crashed with the worker gone; the others are Stopped
ApiInitAgents ==
    {[a \in Agents |->
        IF a \notin DispatchAgents THEN ConfiguredAgents[a]
        ELSE [ConfiguredAgents[a] EXCEPT
                !.status = IF a \in up THEN "running" ELSE "crashed",
                !.process = IF a \in up THEN "live" ELSE "dead"]]
     : up \in SUBSET DispatchAgents}

InitApi ==
    /\ agents \in ApiInitAgents
    /\ health_monitor_running = FALSE
    /\ history = NoHistory
    /\ task = [t \in Tasks |->
                 IF t = MonitorTask THEN [IdleTask EXCEPT !.pc = "m_none"]
                 ELSE IdleTask]
    /\ running = {}
    /\ timers = <<>>
    /\ result = NoResult
    /\ ApiInit

NextApi ==
    \/ \E selected_agent \in QueryAgents : query_endpoint(selected_agent)
    \/ \E i \in 1..MaxQueries : BgStep(i)
    \/ stop_processing
    \/ \E a \in DispatchAgents : ApiProbe(a)
    \/ \E a \in DispatchAgents : ProcessExit(a)

\* the API serving queries
SpecApi == InitApi /\ [][NextApi]_vars

\* a created task is run by the event loop, and a forwarded request is
\* answered, refused or timed out
ApiFairness == \A i \in 1..MaxQueries : WF_vars(BgStep(i))

FairSpecApi == SpecApi /\ ApiFairness

\* ---- a worker's POST /query handler ---------------------------------------
\* what execute_agent_query does for a query: it raises, returns a value that
\* is no dict, or returns a dict in which each key is absent, holds a value of
\* the type QueryResponse declares, or holds a value of another type
AgentResults ==
    [kind : {"raises", "not_a_dict", "dict"},
     answer : {"absent", "text", "invalid"},
     reasoning : {"absent", "text", "invalid"},
     status : {"absent", "completed", "error", "invalid"},
     blocks : {"absent", "blocks", "invalid"}]

\* result.get(key, default)
Get(returned, key, default) ==
    IF returned[key] = "absent" THEN default ELSE returned[key]

\* the reply of the except branch (lines 93-107)
ErrorResponse(agent_name) ==
    [answer |-> "apology", reasoning |-> "unexpected error",
     agent_name |-> agent_name, status |-> "error", blocks |-> "{}",
     success |-> FALSE, error |-> "error_msg"]

\* execute_query whose except branch reports success
execute_querySuccessOnError(agent_name, returned) ==
    IF \/ returned.kind # "dict"
       \/ \E key \in {"answer", "reasoning", "status", "blocks"} :
             Get(returned, key, "default") = "invalid"
    THEN [ErrorResponse(agent_name) EXCEPT !.success = TRUE]
    ELSE [answer |-> Get(returned, "answer", ""),
          reasoning |-> Get(returned, "reasoning", ""),
          agent_name |-> agent_name,
          status |-> Get(returned, "status", "completed"),
          blocks |-> Get(returned, "blocks", "{}"),
          success |-> TRUE, error |-> "None"]

\* execute_query of the worker agent_name: the try body raises when
\* execute_agent_query raises, when result.get fails on a value that is no
\* dict, and when QueryResponse rejects a field of the wrong type
execute_query(agent_name, returned) ==
    IF \/ returned.kind # "dict"
       \/ \E key \in {"answer", "reasoning", "status", "blocks"} :
             Get(returned, key, "default") = "invalid"
    THEN ErrorResponse(agent_name)
    ELSE [answer |-> Get(returned, "answer", ""),
          reasoning |-> Get(returned, "reasoning", ""),
          agent_name |-> agent_name,
          status |-> Get(returned, "status", "completed"),
          blocks |-> Get(returned, "blocks", "{}"),
          success |-> TRUE, error |-> "None"]

\* the worker agent_name handles a POST /query
ExecuteQuery(agent_name, returned) ==
    /\ result' = [fn |-> "execute_query",
                  arg |-> [agent_name |-> agent_name, returned |-> returned],
                  value |-> execute_query(agent_name, returned)]
    /\ UNCHANGED <<registry_vars, api_vars>>

WorkerNext ==
    \E agent_name \in Agents, returned \in AgentResults :
        ExecuteQuery(agent_name, returned)

\* the workers answering queries
SpecWorker == Init /\ [][WorkerNext]_vars

\* ---- properties ------------------------------------------------------------
StatusOf(a) == agents[a].status

\* C1: restart_count never exceeds max_restarts, and a restart_agent call made
\* when restart_count = max_restarts returns False at once, leaving
\* restart_count and the process as they were and stopping or spawning nothing
C1_RestartBounded ==
    /\ [](\A a \in Agents : agents[a].restart_count <= max_restarts)
    /\ [][\A t \in Tasks :
            (/\ task[t].pc = "r_check"
             /\ task'[t] # task[t]
             /\ agents[task[t].agent].restart_count = max_restarts)
            => /\ task'[t].pc = "ret"
               /\ task'[t].ret = "False"
               /\ task'[t].fx = {}
               /\ agents'[task[t].agent].restart_count = max_restarts
               /\ agents'[task[t].agent].process =
                     agents[task[t].agent].process]_vars

\* a restart_agent call made with the budget used up has just returned
C1_Witness ==
    \E t \in Tasks :
        /\ Owns(t) /\ task[t].pc = "ret" /\ task[t].op = "restart"
        /\ task[t].cnt0 = max_restarts /\ task[t].ret = "False"
        /\ agents[task[t].agent].restart_count = max_restarts

\* task t is inside restart_agent for agent a, after it set Restarting and
\* before its start_agent has returned
InRestart(t, a) ==
    /\ task[t].op = "restart"
    /\ task[t].agent = a
    /\ task[t].pc \in {"r_stop", "r_sleep", "s_stop", "s_set", "s_spawn",
                       "s_sleep", "s_poll", "s_probe", "s_run", "s_fail"}

\* C2: two executions of restart_agent for the same agent never interleave:
\* while one is between setting Restarting and the return of its start_agent,
\* no other one has incremented restart_count, stopped or spawned
C2_RestartsExclusive ==
    \A a \in Agents : \A t, u \in Tasks :
        (InRestart(t, a) /\ InRestart(u, a)) => t = u

\* C3: when the startup probe of start_agent is unhealthy, start_agent stops
\* the process and returns False leaving the status Crashed
C3_FailedStartupProbeCrashed ==
    [][\A t \in Tasks :
         (task[t].pc = "s_fail" /\ task'[t].pc = "ret")
         => /\ task'[t].ret = "False"
            /\ agents'[task[t].agent].process # "live"
            /\ agents'[task[t].agent].status = "crashed"]_vars

\* the step is task t making a GET /health for agent a: in
\* check_agent_health called directly, in start_agent, or in a monitor cycle
ProbeStep(t, a) ==
    /\ task'[t] # task[t]
    /\ \/ task[t].agent = a /\ task[t].pc \in {"c_probe", "s_probe"}
       \/ /\ t = MonitorTask
          /\ task[t].pc = "m_agent"
          /\ task[t].idx <= Len(AgentOrder)
          /\ AgentOrder[task[t].idx] = a
          /\ agents[a].status \in {"running", "crashed"}

\* C4: an unhealthy probe of a Running agent, whatever the reason (another
\* HTTP status than 200, a connection failure or timeout), returns unhealthy
\* and makes the agent's status Crashed
C4_UnhealthyRunningCrashes ==
    [][\A a \in Agents : \A t \in Tasks :
         (/\ ProbeStep(t, a)
          /\ agents[a].status = "running"
          /\ task'[t].probe \in {"http_error", "exception"})
         => /\ agents'[a].status = "crashed"
            /\ task'[t].pc = "ret" => task'[t].ret = "False"]_vars

\* the transitions of the state table
StateTable ==
    {<<"stopped", "starting">>, <<"starting", "running">>,
     <<"starting", "crashed">>, <<"running", "stopped">>,
     <<"running", "crashed">>, <<"crashed", "restarting">>,
     <<"restarting", "running">>, <<"restarting", "crashed">>,
     <<"crashed", "running">>}

\* C5: every change of an agent's status is a transition of the state table
C5_OnlyTableTransitions ==
    [][\A a \in Agents :
         agents'[a].status # agents[a].status
         => <<agents[a].status, agents'[a].status>> \in StateTable]_vars

\* C6: a restart_agent called on a Crashed agent with budget left, with no
\* other operation on the agent, returns True with the agent Running or
\* False with the agent Crashed
C6_RestartOutcome ==
    \A t \in Tasks :
        (/\ Owns(t) /\ task[t].pc = "ret" /\ task[t].op = "restart"
         /\ task[t].st0 = "crashed" /\ task[t].cnt0 < max_restarts
         /\ task[t].alone)
        => /\ task[t].ret = "True" => StatusOf(task[t].agent) = "running"
           /\ task[t].ret = "False" => StatusOf(task[t].agent) = "crashed"

\* C7: a restart the monitor makes for a crashed agent with budget left, when
\* it succeeds, leaves the agent Running with restart_count one higher (so
\* three crashes and restarts end Running with restart_count 3); with
\* restart_count = max_restarts the monitor's restart returns False at once,
\* the agent stays Crashed with restart_count = max_restarts, and from then on
\* no step of the monitor stops or spawns a process for the agent
C7_MonitorCrashRestart ==
    /\ [](LET m == task[MonitorTask] IN
            m.op = "restart" =>
              /\ m.st0 = "crashed"
              /\ m.cnt0 >= max_restarts =>
                   /\ m.pc \in {"r_check", "ret"}
                   /\ m.fx = {}
                   /\ m.pc = "ret" =>
                        /\ m.ret = "False"
                        /\ StatusOf(m.agent) = "crashed"
                        /\ agents[m.agent].restart_count = max_restarts
              /\ (m.cnt0 < max_restarts /\ m.pc = "ret" /\ m.ret = "True") =>
                   /\ StatusOf(m.agent) = "running"
                   /\ m.alone => agents[m.agent].restart_count = m.cnt0 + 1)
    /\ [][\A a \in Agents :
            (/\ agents[a].restart_count = max_restarts
             /\ task'[MonitorTask] # task[MonitorTask]
             /\ ~(task[MonitorTask].op = "restart"
                    /\ task[MonitorTask].cnt0 < max_restarts))
            => agents'[a].process = agents[a].process]_vars

\* the monitor's restart of an agent that crashed with restart_count 3 has
\* just been refused
C7_Witness ==
    LET m == task[MonitorTask] IN
      /\ Owns(MonitorTask) /\ m.op = "restart" /\ m.pc = "ret"
      /\ m.cnt0 = max_restarts /\ m.ret = "False" /\ m.alone
      /\ StatusOf(m.agent) = "crashed"
      /\ agents[m.agent].process = "dead"

FrozenCrashed(a) ==
    agents[a].status = "crashed" /\ agents[a].restart_count = max_restarts

\* the step is task t probing agent a (check_agent_health called directly or
\* by a monitor cycle) or t's restart_agent call for a
ProbeOrRestartStep(t, a) ==
    /\ task'[t] # task[t]
    /\ \/ task[t].agent = a /\ task[t].pc \in {"c_probe", "r_check"}
       \/ /\ t = MonitorTask
          /\ task[t].pc = "m_agent"
          /\ task[t].idx <= Len(AgentOrder)
          /\ AgentOrder[task[t].idx] = a

\* C8 as claimed: once Crashed with restart_count = max_restarts, the status
\* is Crashed after every probe, monitor cycle and restart_agent call
C8_FrozenTerminal ==
    [][\A a \in Agents : \A t \in Tasks :
         (FrozenCrashed(a) /\ ProbeOrRestartStep(t, a))
         => agents'[a].status = "crashed"]_vars

\* C8: once Crashed with restart_count = max_restarts, probes, monitor cycles
\* and restart_agent calls leave restart_count and the process unchanged and
\* leave the status Crashed, except that a healthy probe makes it Running
C8_FrozenUntilHealthy ==
    [][\A a \in Agents : \A t \in Tasks :
         (FrozenCrashed(a) /\ ProbeOrRestartStep(t, a))
         => /\ agents'[a].restart_count = max_restarts
            /\ agents'[a].process = agents[a].process
            /\ \/ agents'[a].status = "crashed"
               \/ /\ agents'[a].status = "running"
                  /\ agents'[a].last_health_check = 1
                  /\ task[t].pc # "r_check"
                  /\ task'[t].pc = "ret" => task'[t].ret = "True"
                  /\ task'[t].op # "restart"]_vars

\* a healthy probe has just brought back an agent that was Crashed with its
\* restart budget used up
C8_Witness ==
    \E t \in Tasks :
        /\ Owns(t) /\ task[t].pc = "ret" /\ task[t].op = "check"
        /\ task[t].st0 = "crashed" /\ task[t].cnt0 = max_restarts
        /\ task[t].ret = "True"
        /\ StatusOf(task[t].agent) = "running"

\* C9: an operation that resumes after its wait finds the agent as it left
\* it: Starting after the startup wait of start_agent, Stopped with no live
\* process after the pause of restart_agent
C9_NoStaleResume ==
    [][\A t \in Tasks :
         /\ (task[t].pc = "s_sleep" /\ task'[t].pc = "s_poll")
            => StatusOf(task[t].agent) = "starting"
         /\ (task[t].pc = "r_sleep" /\ task'[t].pc = "s_stop")
            => /\ StatusOf(task[t].agent) = "stopped"
               /\ agents[task[t].agent].process # "live"]_vars

\* C10: a restart_agent called on an agent whose status is not Crashed is a
\* no-op: it does not go on to set Restarting, stop or spawn, and
\* restart_count stays what it was at the call
C10_RestartOnlyWhenCrashed ==
    \A t \in Tasks :
        (task[t].op = "restart" /\ task[t].st0 # "crashed")
        => /\ task[t].pc \in {"r_check", "ret"}
           /\ task[t].fx = {}
           /\ task[t].alone =>
                agents[task[t].agent].restart_count = task[t].cnt0

\* C11: when the spawn in start_agent fails (Popen raises, or the process has
\* exited when the startup wait ends), start_agent returns False leaving the
\* status Crashed, the process handle None and restart_count unchanged
C11_FailedSpawnNoHandle ==
    [][\A t \in Tasks :
         (task[t].pc \in {"s_spawn", "s_poll"} /\ task'[t].pc = "ret")
         => /\ task'[t].ret = "False"
            /\ agents'[task[t].agent].status = "crashed"
            /\ agents'[task[t].agent].process = "none"
            /\ agents'[task[t].agent].restart_count =
                  agents[task[t].agent].restart_count]_vars

\* get_agent_status: the entry of agent a ("pid" stands for the process id of
\* a handle that is not None)
get_agent_status(a) ==
    [status |-> agents[a].status,
     restart_count |-> agents[a].restart_count,
     last_health_check |-> agents[a].last_health_check,
     process_id |-> IF agents[a].process = "none" THEN "None" ELSE "pid",
     running |-> agents[a].process = "live"]

\* C12: whenever an agent's status is Stopped its process handle is None and
\* get_agent_status reports process_id None for it
C12_StoppedHasNoHandle ==
    \A a \in Agents :
        agents[a].status = "stopped"
        => /\ agents[a].process = "none"
           /\ get_agent_status(a).process_id = "None"

\* the step is the monitor's cycle reaching agent a (line 344 onwards)
MonitorAt(a) ==
    /\ task[MonitorTask].pc = "m_agent"
    /\ task[MonitorTask].idx <= Len(AgentOrder)
    /\ AgentOrder[task[MonitorTask].idx] = a
    /\ task'[MonitorTask] # task[MonitorTask]

\* C13: in a monitor cycle a Crashed agent whose probe is healthy goes back to
\* Running with restart_count unchanged and nothing stopped or spawned, and
\* the cycle goes on to the next agent; a Crashed agent whose probe is
\* unhealthy gets a restart_agent call, after whose return the cycle goes on
\* to the next agent (one attempt per cycle)
C13_MonitorCrashedProbe ==
    /\ [][\A a \in Agents :
            (MonitorAt(a) /\ agents[a].status = "crashed")
            => LET m == task'[MonitorTask] IN
                 /\ agents'[a].restart_count = agents[a].restart_count
                 /\ agents'[a].process = agents[a].process
                 /\ m.probe = "ok"
                      => /\ agents'[a].status = "running"
                         /\ m.op = "none" /\ m.pc = "m_agent"
                         /\ m.idx = task[MonitorTask].idx + 1
                 /\ m.probe # "ok"
                      => /\ agents'[a].status = "crashed"
                         /\ m.op = "restart" /\ m.agent = a
                         /\ m.pc = "r_check" /\ m.fx = {}
                         /\ m.idx = task[MonitorTask].idx]_vars
    /\ [][(/\ task[MonitorTask].op = "restart"
           /\ task[MonitorTask].pc = "ret"
           /\ task'[MonitorTask] # task[MonitorTask])
          => /\ task'[MonitorTask].op = "none"
             /\ task'[MonitorTask].pc = "m_agent"
             /\ task'[MonitorTask].idx = task[MonitorTask].idx + 1]_vars

\* a monitor cycle has just found an agent healthy that was Crashed after
\* restarts, and has gone on to the next agent
C13_Witness ==
    LET m == task[MonitorTask] IN
      /\ Owns(MonitorTask) /\ m.pc = "m_agent" /\ m.op = "none"
      /\ m.probe = "ok" /\ m.st0 = "crashed"
      /\ StatusOf(m.agent) = "running"
      /\ agents[m.agent].restart_count > 0

\* the step is a step of the monitor in a cycle that finds agent a healthy:
\* any step of the monitor but an unhealthy probe of a or the restart of a
\* that follows one
HealthyCycleStep(a) ==
    /\ task'[MonitorTask] # task[MonitorTask]
    /\ ~(task[MonitorTask].op = "restart" /\ task[MonitorTask].agent = a)
    /\ MonitorAt(a) => task'[MonitorTask].probe = "ok"

\* C14: monitor cycles in which a Running agent's probe is healthy, however
\* many in a row, leave the agent Running in every intermediate state and
\* leave its restart_count and process unchanged
C14_HealthyCyclesChangeNothing ==
    [][\A a \in Agents :
         (agents[a].status = "running" /\ HealthyCycleStep(a))
         => /\ agents'[a].status = "running"
            /\ agents'[a].restart_count = agents[a].restart_count
            /\ agents'[a].process = agents[a].process
            /\ MonitorAt(a) => task'[MonitorTask].op = "none"]_vars

\* MaxCycles monitor cycles in a row have found a restarted agent Running and
\* healthy
C14_Witness ==
    \E a \in Agents :
        /\ task[MonitorTask].pc = "m_sleep"
        /\ task[MonitorTask].streak[a] = MaxCycles
        /\ StatusOf(a) = "running"
        /\ agents[a].restart_count > 0

\* C15: stop_agent on an agent that is already Stopped returns True and
\* changes nothing (status, process handle and restart_count stay, no process
\* is signalled), so calling it again gives the same state as calling it once
C15_StopStoppedIsNoOp ==
    /\ \A a \in Agents :
          agents[a].status = "stopped"
          => \A in_time \in BOOLEAN :
               LET once == stop_agent(agents[a], in_time) IN
                 /\ once = [agent |-> agents[a], ret |-> TRUE, fx |-> {}]
                 /\ stop_agent(once.agent, in_time) = once
    /\ \A t \in Tasks :
          (/\ task[t].op = "stop" /\ task[t].pc = "ret"
           /\ task[t].st0 = "stopped" /\ task[t].alone)
          => /\ task[t].ret = "True"
             /\ task[t].fx = {}
             /\ StatusOf(task[t].agent) = "stopped"
             /\ agents[task[t].agent].restart_count = task[t].cnt0

\* stop_agent has just returned for an agent that was Stopped, with the handle
\* of an earlier process, when it was called
C15_Witness ==
    \E t \in Tasks :
        /\ Owns(t) /\ task[t].op = "stop" /\ task[t].pc = "ret"
        /\ task[t].st0 = "stopped" /\ task[t].ret = "True"
        /\ agents[task[t].agent].process = "dead"
        /\ agents[task[t].agent].restart_count > 0

\* C16: an exception raised inside a monitor cycle does not end the loop: the
\* monitor sleeps the normal interval, then tests the loop condition, and
\* starts another cycle unless stop_health_monitor has been called; the loop
\* is only ever left with health_monitor_running false
C16_CycleErrorKeepsLoop ==
    /\ [](task[MonitorTask].pc = "m_done" => ~health_monitor_running)
    /\ [][LET m == task[MonitorTask]
              n == task'[MonitorTask] IN
            /\ (m.pc = "m_agent" /\ n.pc \notin {"m_agent", "r_check", "m_sleep"})
               => /\ n.pc = "m_xsleep"
                  /\ timers' = Append(timers, MonitorTask)
                  /\ SleepOf(MonitorTask)' = health_check_interval
            /\ (m.pc = "m_xsleep" /\ n # m) => n.pc = "m_while"
            /\ (m.pc = "m_while" /\ n # m /\ health_monitor_running)
               => n.pc = "m_agent" /\ n.idx = 1]_vars
    /\ (task[MonitorTask].pc = "m_xsleep")
         ~> \/ task[MonitorTask].pc = "m_agent" /\ task[MonitorTask].idx = 1
            \/ ~health_monitor_running

\* after an exception in a cycle and the sleep that follows it, the monitor
\* is in a new cycle
C16_Witness ==
    /\ task[MonitorTask].pc = "m_agent"
    /\ task[MonitorTask].idx = 1
    /\ task[MonitorTask].probe = "raised"
    /\ health_monitor_running

\* the monitor loop has begun and has not exited
InLoop == task[MonitorTask].pc \notin {"m_none", "m_new", "m_done"}

\* C17: once stop_health_monitor has been called with the monitor in a cycle,
\* the monitor completes the cycle (it goes through the agents one by one,
\* finishing each check and restart it begins, up to the last agent), starts
\* no further cycle, and eventually exits
C17_StopCompletesCycle ==
    /\ [][LET m == task[MonitorTask]
              n == task'[MonitorTask] IN
            /\ (m.pc = "m_agent" /\ n # m)
               => \/ /\ m.idx <= Len(AgentOrder)
                     /\ n.pc = "m_agent" /\ n.idx = m.idx + 1
                  \/ /\ m.idx <= Len(AgentOrder)
                     /\ n.pc = "r_check" /\ n.idx = m.idx
                  \/ /\ m.idx = Len(AgentOrder) + 1
                     /\ n.pc = "m_sleep"
            /\ (m.op = "restart" /\ n # m)
               => \/ n.op = "restart" /\ n.idx = m.idx /\ n.agent = m.agent
                  \/ /\ m.pc = "ret"
                     /\ n.pc = "m_agent" /\ n.idx = m.idx + 1
            /\ (m.pc = "m_while" /\ n # m /\ ~health_monitor_running)
               => n.pc = "m_done"
            /\ (InLoop /\ ~health_monitor_running)
               => ~health_monitor_running']_vars
    /\ (InLoop /\ ~health_monitor_running) ~> (task[MonitorTask].pc = "m_done")

\* stop_health_monitor was called during a restart the monitor was making in
\* a cycle, and the monitor has gone through all the agents of the cycle
C17_Witness ==
    /\ ~health_monitor_running
    /\ Owns(MonitorTask)
    /\ task[MonitorTask].pc = "m_agent"
    /\ task[MonitorTask].idx = Len(AgentOrder) + 1

\* C18: once stop_health_monitor has been called while the monitor is
\* checking one agent, the monitor does not go on to the next agent of the
\* cycle: it takes no step for an agent with health_monitor_running false
C18_StopExitsBeforeNextAgent ==
    [][~(\E a \in Agents : MonitorAt(a) /\ ~health_monitor_running)]_vars

\* the step is task t executing stop_agent: called directly, by start_agent
\* for a running process or after a failed probe, or by restart_agent
StopStep(t) ==
    /\ task'[t] # task[t]
    /\ \/ task[t].pc \in {"t_stop", "s_fail", "r_stop"}
       \/ task[t].pc = "s_stop" /\ Agent(t).process = "live"

\* C19: stop_agent always returns, and when it returns True the agent's
\* process has exited (after terminate, or after kill when the wait timed
\* out) and the status is Stopped
C19_StopMeansDead ==
    /\ [](\A a \in Agents : \A in_time \in BOOLEAN :
            LET r == stop_agent(agents[a], in_time) IN
              r.ret => r.agent.process # "live" /\ r.agent.status = "stopped")
    /\ [](\A t \in Tasks :
            /\ (Owns(t) /\ task[t].pc = "t_stop") => ENABLED StopCall(t)
            /\ (task[t].op = "stop" /\ task[t].pc = "ret"
                  /\ task[t].ret = "True")
               => /\ agents[task[t].agent].process # "live"
                  /\ StatusOf(task[t].agent) = "stopped")
    /\ [][\A t \in Tasks :
            StopStep(t)
            => /\ agents'[task[t].agent].process # "live"
               /\ agents'[task[t].agent].status = "stopped"
               /\ task'[t].pc # task[t].pc
               /\ task[t].pc = "t_stop" => task'[t].pc = "ret"]_vars

\* stop_agent has just returned True for an agent that was Running: its
\* process was signalled and has exited
C19_Witness ==
    \E t \in Tasks :
        /\ Owns(t) /\ task[t].op = "stop" /\ task[t].pc = "ret"
        /\ task[t].st0 = "running" /\ task[t].ret = "True"
        /\ task[t].fx = {"terminate"}
        /\ agents[task[t].agent].process = "dead"
        /\ StatusOf(task[t].agent) = "stopped"

\* the step is task t meeting a failure: a spawn error, a failed probe, or
\* a restart refused because the budget is used up
FailureStep(t) ==
    \/ task[t].pc = "s_spawn" /\ task'[t].pc = "ret"
    \/ task[t].pc = "s_poll" /\ task'[t].pc = "ret"
    \/ task[t].pc = "s_fail" /\ task'[t].pc = "ret"
    \/ task[t].pc = "c_probe" /\ task'[t].probe \in {"http_error", "exception"}
    \/ /\ task[t].pc = "r_check" /\ task'[t].pc = "ret"

\* the operations return True or False and never raise, and the monitor loop
\* and its flag are untouched by a failure: after a failed restart the monitor
\* goes on with the next agent
C20_NeverRaises ==
    /\ [](\A t \in Tasks : task[t].pc = "ret" => task[t].ret \in {"True", "False"})
    /\ [][\A t \in Tasks :
            FailureStep(t)
            => /\ task'[t].pc = "ret" /\ task'[t].ret = "False"
               /\ health_monitor_running' = health_monitor_running]_vars
    /\ [][(/\ task[MonitorTask].pc = "ret"
           /\ task'[MonitorTask] # task[MonitorTask])
          => task'[MonitorTask].pc = "m_agent"]_vars

\* C20: start_agent, stop_agent, restart_agent and check_agent_health never
\* raise: a spawn error, a failed probe or an exhausted restart budget makes
\* the operation return False and shows in the status get_agent_status
\* reports (the agent is not reported as running), and the monitor loop keeps
\* running
C20_ErrorsReportedNotRaised ==
    /\ C20_NeverRaises
    /\ [][\A t \in Tasks :
            FailureStep(t)
            => get_agent_status(task[t].agent)'.status # "running"]_vars

\* the elements of a list
Elems(seq) == {seq[i] : i \in 1..Len(seq)}

\* C21: get_healthy_agents returns exactly the agents whose status is Running
\* at the time of the call, each once
C21_HealthyIsRunning ==
    /\ Elems(get_healthy_agents) = {a \in Agents : agents[a].status = "running"}
    /\ Len(get_healthy_agents) = Cardinality(Elems(get_healthy_agents))
    /\ result.fn = "get_healthy_agents"
       => Elems(result.value) = {a \in Agents : agents[a].status = "running"}

\* get_healthy_agents has returned two of the agents and left out a Crashed,
\* a Restarting and a Starting one
C21_Witness ==
    /\ result.fn = "get_healthy_agents"
    /\ Len(result.value) = 2
    /\ \A st \in {"crashed", "restarting", "starting"} :
           \E a \in Agents : agents[a].status = st

\* seq lists elements of chain in the order of chain, none twice
InOrderOf(seq, chain) ==
    \E f \in [1..Len(seq) -> 1..Len(chain)] :
        /\ \A i \in 1..Len(seq) : seq[i] = chain[f[i]]
        /\ \A i, j \in 1..Len(seq) : i < j => f[i] < f[j]

\* C22: for every agent name, get_fallback_agents returns exactly the members
\* of the agent's declared fallback chain whose status is Running, in the
\* order of the chain, and the empty list when the chain is empty or no
\* member is Running
C22_FallbacksRunningInOrder ==
    \A name \in Agents :
        LET got == get_fallback_agents(name)
            chain == fallback_map(name)
        IN  /\ Elems(got) = {a \in Elems(chain) : agents[a].status = "running"}
            /\ InOrderOf(got, chain)
            /\ (chain = <<>> \/ \A a \in Elems(chain) : agents[a].status # "running")
               => got = <<>>
            /\ (result.fn = "get_fallback_agents" /\ result.arg = name)
               => result.value = got

\* get_fallback_agents("planner") has returned the whole chain, both members
\* being Running, in the declared order and not in the order of self.agents
C22_Witness ==
    /\ result.fn = "get_fallback_agents"
    /\ result.arg = "planner"
    /\ result.value = <<"casual", "code">>

QueryRaises(returned) ==
    \/ returned.kind # "dict"
    \/ \E key \in {"answer", "reasoning", "status", "blocks"} :
          returned[key] = "invalid"

\* C27: every reply of a worker's POST /query handler has the fields answer,
\* reasoning, agent_name, status, blocks, success and error, with agent_name
\* the worker's own name; success is True exactly when error is None, and an
\* exception in the query processing gives success False and status "error"
C27_WorkerEnvelope ==
    result.fn = "execute_query"
    => /\ DOMAIN result.value = {"answer", "reasoning", "agent_name", "status",
                                 "blocks", "success", "error"}
       /\ result.value.agent_name = result.arg.agent_name
       /\ result.value.success <=> result.value.error = "None"
       /\ result.value.success \in BOOLEAN
       /\ QueryRaises(result.arg.returned)
          => /\ ~result.value.success
             /\ result.value.status = "error"
       /\ ~QueryRaises(result.arg.returned) => result.value.success

\* the planner worker has replied to a query whose processing raised
C27_Witness ==
    /\ result.fn = "execute_query"
    /\ result.arg.agent_name = "planner"
    /\ result.arg.returned.kind = "raises"
    /\ result.value.error = "error_msg"

\* background task i takes a step of its dispatch
Forwarding(i) ==
    /\ i \in 1..Len(background)
    /\ background[i].pc = "forward"
    /\ background'[i] # background[i]

Finishing(i) ==
    /\ i \in 1..Len(background)
    /\ background[i].pc # "done"
    /\ background'[i].pc = "done"

\* C26: every query the query endpoint accepts gets a background task, and
\* that task ends; when it ends latest_answer_data.done is True and
\* processing_query is False, and if no agent answered the published record
\* is an error envelope (status "error", error set)
C26_QueryEndsPublished ==
    /\ [][\A i \in 1..MaxQueries :
            Finishing(i)
            => /\ latest_answer_data'.done
               /\ ~processing_query'
               /\ background'[i].answered = "none"
                  => /\ latest_answer_data'.status = "error"
                     /\ latest_answer_data'.error # "None"]_vars
    /\ [][Len(background') > Len(background)
          => /\ Len(background') = Len(background) + 1
             /\ background'[Len(background')].pc = "created"
             /\ background'[Len(background')].uid = latest_answer_data'.uid
             /\ processing_query']_vars
    /\ \A i \in 1..MaxQueries :
          (Len(background) >= i)
          ~> (Len(background) >= i /\ background[i].pc = "done")

\* two queries have ended with a failure published: one found no healthy
\* agent and one failed on every candidate
C26_Witness ==
    /\ Len(background) = 2
    /\ background[1].pc = "done"
    /\ background[1].candidates = <<>>
    /\ background[2].pc = "done"
    /\ background[2].failed = <<"planner", "casual", "code">>
    /\ latest_answer_data.status = "error"
    /\ latest_answer_data.done
    /\ ~processing_query

\* task t takes a step of a registry operation (a call, a statement group, a
\* wake-up or a return)
OperationStep(t) ==
    /\ task'[t] # task[t]
    /\ running = {t} \/ running' = {t}

\* C28: a step of an operation on one agent (start_agent, stop_agent,
\* restart_agent, check_agent_health, or the monitor's handling of that
\* agent) leaves the record of every other agent unchanged: status, process
\* handle, restart_count and last_health_check
C28_OtherAgentsUntouched ==
    [][\A t \in Tasks :
         OperationStep(t)
         => \A b \in Agents :
               agents'[b] # agents[b]
               => /\ b \in {task[t].agent, task'[t].agent}
                  /\ \A other \in Agents \ {b} : agents'[other] = agents[other]]_vars

\* a restart of browser has counted against browser while code is Running
\* with a live process, a probe recorded and no restart counted
C28_Witness ==
    /\ agents["browser"].restart_count = 2
    /\ agents["browser"].status = "restarting"
    /\ agents["code"].status = "running"
    /\ agents["code"].process = "live"
    /\ agents["code"].last_health_check = 1
    /\ agents["code"].restart_count = 0

\* C29: restart_count of an agent never decreases: every step of every
\* operation, and every process exit, leaves it greater than or equal to its
\* previous value
C29_RestartCountMonotone ==
    [][\A a \in Agents :
         agents'[a].restart_count >= agents[a].restart_count]_vars

\* an agent restarted max_restarts times has come up: its start has returned
\* True, it is Running with a healthy probe recorded, and its restart_count
\* is still max_restarts
C29_Witness ==
    \E t \in Tasks :
        /\ Owns(t) /\ task[t].pc = "ret" /\ task[t].ret = "True"
        /\ task[t].op \in {"start", "restart"}
        /\ agents[task[t].agent].status = "running"
        /\ agents[task[t].agent].last_health_check = 1
        /\ agents[task[t].agent].restart_count = agents[task[t].agent].max_restarts

\* the configuration of an agent's record
Config(ag) ==
    [name |-> ag.name, port |-> ag.port, script_path |-> ag.script_path,
     max_restarts |-> ag.max_restarts]

\* C30: the registry starts with every agent Stopped, restart_count 0 and no
\* process handle; it holds one record per configured agent name at all
\* times, filed under the record's own name; no step changes an agent's name,
\* port, script path or max_restarts; and distinct agents have distinct ports
C30_OneFixedRecordPerAgent ==
    /\ \A a \in Agents : /\ agents[a].status = "stopped"
                         /\ agents[a].restart_count = 0
                         /\ agents[a].process = "none"
    /\ [](/\ DOMAIN agents = {"browser", "code", "file", "casual", "planner"}
          /\ \A a \in DOMAIN agents : agents[a].name = a
          /\ \A a, b \in DOMAIN agents :
                a # b => agents[a].port # agents[b].port)
    /\ [][\A a \in DOMAIN agents :
            /\ DOMAIN agents' = DOMAIN agents
            /\ Config(agents'[a]) = Config(agents[a])]_vars

\* browser has been spawned, stopped and restarted, and is still filed under
\* its name with the port and script it was configured with
C30_Witness ==
    /\ agents["browser"].restart_count = 2
    /\ agents["browser"].process = "live"
    /\ agents["browser"].last_health_check = 1
    /\ agents["browser"].name = "browser"
    /\ agents["browser"].port = 8001
    /\ agents["browser"].script_path = "mcp_agents/browser_agent_server.py"
    /\ agents["browser"].max_restarts = 3

\* C31: when a monitor cycle reaches an agent that is Stopped, Starting or
\* Restarting, the monitor makes no probe and no restart for it and leaves
\* its record unchanged (status, process handle, restart_count,
\* last_health_check): it only moves on to the next agent
C31_MonitorSkipsOthers ==
    [][\A a \in Agents :
         (MonitorAt(a) /\ agents[a].status \notin {"running", "crashed"})
         => /\ agents'[a] = agents[a]
            /\ task'[MonitorTask].pc = "m_agent"
            /\ task'[MonitorTask].idx = task[MonitorTask].idx + 1
            /\ task'[MonitorTask].op = "none"
            /\ task'[MonitorTask].probe = "none"
            /\ task'[MonitorTask].fx = {}]_vars

\* the monitor has just passed over browser, which is Starting with a live
\* process while a start_agent waits out its startup time
C31_Witness ==
    /\ Owns(MonitorTask)
    /\ task[MonitorTask].pc = "m_agent"
    /\ task[MonitorTask].idx = 2
    /\ task[MonitorTask].probe = "none"
    /\ agents["browser"].status = "starting"
    /\ agents["browser"].process = "live"
    /\ \E t \in Callers : task[t].pc = "s_sleep" /\ task[t].agent = "browser"

\* task t is inside start_agent or restart_agent and has not returned
StartInProgress(t) ==
    /\ task[t].op \in {"start", "restart"}
    /\ task[t].pc # "ret"

SpawnStep(t) ==
    /\ task[t].pc = "s_spawn"
    /\ "spawn" \in task'[t].fx

C34_StopIsDurable ==
    \A a \in history.stopped :
        /\ agents[a].status = "stopped"
        /\ agents[a].process # "live"

\* ---- C36 --------------------------------------------------------------------
\* C36: a stop request is never lost.  Once stop_health_monitor has been called
\* after the monitor task was created, the monitor loop eventually exits, also
\* when the call came before the task ran its first statement.
C36_StopRequestNeverLost ==
    history.stop_requested ~> (task[MonitorTask].pc = "m_done")

\* ---- C35 --------------------------------------------------------------------
\* no caller ever calls stop_agent
NoManualStop == \A t \in Callers : task[t].op # "stop"

\* the monitor has found agent a crashed and is restarting it (line 348)
MonitorRestarts(a) ==
    /\ task[MonitorTask].op = "restart"
    /\ task[MonitorTask].agent = a

\* agent a is Running, or Crashed with its restart budget used up
Recovered(a) ==
    \/ agents[a].status = "running"
    \/ /\ agents[a].status = "crashed"
       /\ agents[a].restart_count = agents[a].max_restarts

\* C35: recovery keeps being attempted while budget remains.  If no caller
\* stops an agent and stop_health_monitor is not called on the running
\* monitor, an agent that the monitor found crashed eventually is Running or is
\* Crashed with restart_count = max_restarts.
C35_RecoveryKeepsGoing ==
    ([]NoManualStop /\ [](~history.stop_requested))
        => \A a \in Agents : MonitorRestarts(a) ~> Recovered(a)

\* ---- C37 --------------------------------------------------------------------
\* C37: the answer published in latest_answer_data belongs to the query whose
\* uid the record carries.  A background task that publishes its result does
\* so in a record that holds the uid its own query was given, never the uid of
\* a later query.
C37_AnswerUnderOwnUid ==
    [][\A i \in 1..MaxQueries :
          Finishing(i) => latest_answer_data'.uid = background[i].uid]_vars

\* ---- C38 --------------------------------------------------------------------
\* names that are not keys of self.agents
UnknownNames == Names \ Agents

\* an operation called for an unknown name that answers as stop_agent does for
\* an agent that was not running: True, without the guards of lines 106-108,
\* 160-162, 203-204 and 240-241
CallUnknownAsNotRunning(t, o, name) ==
    /\ Idle
    /\ task[t].pc = "idle"
    /\ name \notin DOMAIN agents
    /\ task' = [task EXCEPT
                  ![t] = [IdleTask EXCEPT !.pc = "ret", !.op = o,
                                          !.agent = name, !.ret = "True"]]
    /\ running' = {t}
    /\ UNCHANGED <<agents, health_monitor_running, timers>>
    /\ UNCHANGED <<result, api_vars, history>>

\* a caller invokes start_agent, stop_agent, restart_agent or
\* check_agent_health for a name that is not in self.agents: the operation
\* logs an error and returns False at its first statement (lines 106-108,
\* 160-162, 203-204, 240-241)
CallUnknown(t, o, name) ==
    /\ Idle
    /\ task[t].pc = "idle"
    /\ name \notin DOMAIN agents
    /\ task' = [task EXCEPT
                  ![t] = [IdleTask EXCEPT !.pc = "ret", !.op = o,
                                          !.agent = name, !.ret = "False"]]
    /\ running' = {t}
    /\ UNCHANGED <<agents, health_monitor_running, timers>>
    /\ UNCHANGED <<result, api_vars, history>>

\* the registry whose callers also pass names that are not configured
NextWithUnknown ==
    \/ Next
    \/ \E t \in Callers, o \in ManualOps, name \in UnknownNames :
          CallUnknown(t, o, name)
    \/ \E name \in UnknownNames : Idle /\ GetFallback(name)

SpecWithUnknown == Init /\ [][NextWithUnknown]_vars

\* task t has called a registry operation for an unknown name
UnknownCall(t) == task[t].op # "none" /\ task[t].agent \in UnknownNames

\* C38: for a name that is not a configured agent, start_agent, stop_agent,
\* restart_agent and check_agent_health return False and get_fallback_agents
\* returns the empty list; none of them changes an agent's record, spawns or
\* signals a process, or adds a record to the registry.
C38_UnknownNameRejected ==
    /\ [](\A t \in Tasks :
            UnknownCall(t) => /\ task[t].pc = "ret"
                              /\ task[t].ret = "False"
                              /\ task[t].fx = {})
    /\ [](result.arg \in UnknownNames => result.value = <<>>)
    /\ [](DOMAIN agents = Agents)
    /\ [][(\/ \E t \in Tasks : ~UnknownCall(t) /\ UnknownCall(t)'
           \/ /\ result'.arg \in UnknownNames
              /\ result' # result)
          => agents' = agents]_vars

\* restart_agent("unknown") has returned False and get_fallback_agents("unknown")
\* the empty list, while a configured agent is Running with its worker alive
C38_Witness ==
    /\ \E t \in Callers :
          /\ task[t].op = "restart"
          /\ task[t].agent = "unknown"
          /\ task[t].ret = "False"
    /\ result.fn = "get_fallback_agents"
    /\ result.arg = "unknown"
    /\ result.value = <<>>
    /\ \E a \in Agents : agents[a].status = "running" /\ agents[a].process = "live"

====
